---- MODULE Spec2Model ----
(***************************************************************************)
(* Model of InternalModuleLocations (Templater "locations" module): the    *)
(* three static template functions search_place, search_yelp and           *)
(* search_google_places, the Yelp GraphQL query builder and the star       *)
(* ratings text.                                                           *)
(*                                                                         *)
(* A string is a sequence of tokens.  Text that a user or a service        *)
(* supplies is spelled one character per token; a literal of the source    *)
(* is one token.                                                           *)
(***************************************************************************)
EXTENDS Integers, Sequences, FiniteSets, TLC

VARIABLES
    settings,          \* this.plugin.settings: google_api_key, yelp_api_key
    static_functions,  \* this.static_functions: the registered function names
    op,                \* per invocation: the static function that was invoked
    pc,                \* per invocation: the await the async function is suspended at
    locals,            \* per invocation: the closure's local variables
    answers,           \* per invocation: what the user answered, in order
    responses,         \* per invocation: what the services answered, in order
    log,               \* per invocation: prompts shown, requests sent, notices shown
    outcome,           \* per invocation: the settled promise (value or error)
    fn_in,             \* argument of a pure function under check
    fn_out,            \* its result
    fn_pc              \* which pure function was applied

vars == <<settings, static_functions, op, pc, locals, answers, responses, log,
          outcome, fn_in, fn_out, fn_pc>>

procVars == <<settings, static_functions, op, pc, locals, answers, responses,
              log, outcome>>

fnVars == <<fn_in, fn_out, fn_pc>>

\* ------------------------------------------------------------------ bounds

\* Invocations that may be in progress at the same time.
NumInvocations == 2

\* A rating r is the integer r * RatingScale (tenths of a star).
RatingScale == 10

\* Longest business name entered in the query-builder specification.
MaxNameLen == 2

\* Most search inputs given to generate_yelp_query.
MaxInputs == 2

\* ------------------------------------------------------- program constants

MAX_STARS == 5

STAR_FILLED == "filled-star"

STAR_EMPTY == "empty-star"

DEFAULT_GOOGLE_DETAILS ==
    <<"name", "editorial_summary", "formatted_address", "photos", "rating",
      "url", "user_ratings_total", "website">>

\* --------------------------------------------------------- string helpers

EmptyString == << >>

\* Array.prototype.join
RECURSIVE Join(_, _)
Join(parts, sep) ==
    IF Len(parts) = 0 THEN EmptyString
    ELSE IF Len(parts) = 1 THEN parts[1]
    ELSE parts[1] \o sep \o Join(Tail(parts), sep)

\* Position of the first token ch in str, Len(str) + 1 when there is none.
RECURSIVE IndexOf(_, _, _)
IndexOf(str, ch, from) ==
    IF from > Len(str) THEN Len(str) + 1
    ELSE IF str[from] = ch THEN from
    ELSE IndexOf(str, ch, from + 1)

\* str.split(ch)[0]
SplitFirst(str, ch) == SubSeq(str, 1, IndexOf(str, ch, 1) - 1)

Letters ==
    {"a", "b", "c", "d", "e", "f", "g", "h", "i", "j", "k", "l", "m",
     "n", "o", "p", "q", "r", "s", "t", "u", "v", "w", "x", "y", "z",
     "A", "B", "C", "D", "E", "F", "G", "H", "I", "J", "K", "L", "M",
     "N", "O", "P", "Q", "R", "S", "T", "U", "V", "W", "X", "Y", "Z"}

Digits == {"0", "1", "2", "3", "4", "5", "6", "7", "8", "9"}

IsAlnum(ch) == ch \in Letters \cup Digits

\* str.replace(/[^a-zA-Z0-9]/g, '')
stripSpecials(str) == SelectSeq(str, IsAlnum)

\* ------------------------------------------------------------ star ratings

\* Math.round(n / RatingScale): the nearest whole number of stars.
MathRound(n) == (2 * n + RatingScale) \div (2 * RatingScale)

\* Math.ceil(n / RatingScale)
MathCeil(n) == (n + RatingScale - 1) \div RatingScale

\* new Array(num).fill(star); a negative length is a RangeError in the source.
make_stars(num, star) == [k \in 1..num |-> star]

\* [...make_stars(rounded, filled), ...make_stars(5 - rounded, empty)].join('')
RatingsText(rating) ==
    LET rounded == MathCeil(rating)
    IN  make_stars(rounded, STAR_FILLED) \o make_stars(MAX_STARS - rounded, STAR_EMPTY)

Ratings == 0..(MAX_STARS * RatingScale)

\* The text the documentation of the ratings promises for rating n / RatingScale:
\* position k is filled exactly when k - 1 < n / RatingScale.
IsStarsOf(text, n) ==
    /\ Len(text) = MAX_STARS
    /\ \A k \in 1..MAX_STARS :
          text[k] = IF (k - 1) * RatingScale < n THEN STAR_FILLED ELSE STAR_EMPTY
    /\ \A k \in 1..(MAX_STARS - 1) : text[k] = STAR_EMPTY => text[k + 1] = STAR_EMPTY

\* ------------------------------------------------------ Yelp GraphQL query

QUOTE == "\""

BACKSLASH == "\\"

NEWLINE == "\n"

QUERY_OPEN == "query {\n"

QUERY_CLOSE == "\n}"

BLOCK_OPEN == "\n    search"

TERM_OPEN == ": search(term: "

LIMIT_ARG == ", limit: 1, "

LOCATION_ARG == "location: "

LATITUDE_ARG == "latitude: "

LONGITUDE_ARG == ", longitude: "

BLOCK_BODY == ") {\n        business { name url photos rating review_count coordinates location categories }\n    }"

\* A search input is a record with a name and either a city or coordinates.
HasCity(input) == "city" \in DOMAIN input

create_yelp_search_block(input) ==
    LET queryName == stripSpecials(input.name)
        params ==
            IF HasCity(input)
            THEN <<LOCATION_ARG, QUOTE>> \o input.city \o <<QUOTE>>
            ELSE <<LATITUDE_ARG, ToString(input.latitude),
                   LONGITUDE_ARG, ToString(input.longitude)>>
    IN  <<BLOCK_OPEN>> \o queryName \o <<TERM_OPEN, QUOTE>> \o input.name
            \o <<QUOTE, LIMIT_ARG>> \o params \o <<BLOCK_BODY>>

generate_yelp_query(search_inputs) ==
    <<QUERY_OPEN>>
        \o Join([k \in 1..Len(search_inputs) |->
                    create_yelp_search_block(search_inputs[k])], <<NEWLINE>>)
        \o <<QUERY_CLOSE>>

\* ---- how a GraphQL service reads the query text (GraphQL specification:
\* a string value ends at the first unescaped quote, a backslash escapes the
\* next character, a line terminator may not occur in it).

ParseFailure == [ok |-> FALSE, blocks |-> << >>]

RECURSIVE ScanString(_, _, _)
ScanString(q, p, acc) ==
    IF p > Len(q) THEN [ok |-> FALSE, value |-> acc, next |-> p]
    ELSE IF q[p] = QUOTE THEN [ok |-> TRUE, value |-> acc, next |-> p + 1]
    ELSE IF q[p] = NEWLINE THEN [ok |-> FALSE, value |-> acc, next |-> p]
    ELSE IF q[p] = BACKSLASH
         THEN IF p + 1 <= Len(q) /\ q[p + 1] \in {QUOTE, BACKSLASH}
              THEN ScanString(q, p + 2, Append(acc, q[p + 1]))
              ELSE [ok |-> FALSE, value |-> acc, next |-> p]
    ELSE ScanString(q, p + 1, Append(acc, q[p]))

\* A string value whose opening quote is expected at position p.
ReadString(q, p) ==
    IF p <= Len(q) /\ q[p] = QUOTE THEN ScanString(q, p + 1, EmptyString)
    ELSE [ok |-> FALSE, value |-> EmptyString, next |-> p]

RECURSIVE AliasEnd(_, _)
AliasEnd(q, p) ==
    IF p <= Len(q) /\ IsAlnum(q[p]) THEN AliasEnd(q, p + 1) ELSE p

TokenAt(q, p, tok) == p <= Len(q) /\ q[p] = tok

\* One search block that starts at position p.
ReadBlock(q, p) ==
    LET bad == [ok |-> FALSE, block |-> << >>, next |-> p]
        a   == AliasEnd(q, p + 1)
        term == ReadString(q, a + 1)
        l   == term.next
        city == ReadString(q, l + 2)
    IN  IF ~(TokenAt(q, p, BLOCK_OPEN) /\ TokenAt(q, a, TERM_OPEN)) THEN bad
        ELSE IF ~term.ok THEN bad
        ELSE IF ~TokenAt(q, l, LIMIT_ARG) THEN bad
        ELSE IF TokenAt(q, l + 1, LOCATION_ARG)
             THEN IF city.ok /\ TokenAt(q, city.next, BLOCK_BODY)
                  THEN [ok |-> TRUE, next |-> city.next + 1,
                        block |-> [alias |-> <<"search">> \o SubSeq(q, p + 1, a - 1),
                                   term |-> term.value,
                                   location |-> city.value,
                                   latitude |-> EmptyString,
                                   longitude |-> EmptyString]]
                  ELSE bad
        ELSE IF /\ TokenAt(q, l + 1, LATITUDE_ARG)
                /\ TokenAt(q, l + 3, LONGITUDE_ARG)
                /\ TokenAt(q, l + 5, BLOCK_BODY)
             THEN [ok |-> TRUE, next |-> l + 6,
                   block |-> [alias |-> <<"search">> \o SubSeq(q, p + 1, a - 1),
                              term |-> term.value,
                              location |-> EmptyString,
                              latitude |-> <<q[l + 2]>>,
                              longitude |-> <<q[l + 4]>>]]
        ELSE bad

RECURSIVE ReadBlocks(_, _, _)
ReadBlocks(q, p, acc) ==
    LET b == ReadBlock(q, p)
    IN  IF ~b.ok THEN ParseFailure
        ELSE IF TokenAt(q, b.next, QUERY_CLOSE) /\ b.next = Len(q)
             THEN [ok |-> TRUE, blocks |-> Append(acc, b.block)]
        ELSE IF TokenAt(q, b.next, NEWLINE)
             THEN ReadBlocks(q, b.next + 1, Append(acc, b.block))
        ELSE ParseFailure

ParseQuery(q) ==
    IF TokenAt(q, 1, QUERY_OPEN) THEN ReadBlocks(q, 2, << >>) ELSE ParseFailure

\* The block the caller means by one search input.
ExpectedBlock(input) ==
    [alias |-> <<"search">> \o SelectSeq(input.name, IsAlnum),
     term |-> input.name,
     location |-> IF HasCity(input) THEN input.city ELSE EmptyString,
     latitude |-> IF HasCity(input) THEN EmptyString ELSE <<ToString(input.latitude)>>,
     longitude |-> IF HasCity(input) THEN EmptyString ELSE <<ToString(input.longitude)>>]

ExpectedBlocks(inputs) == [k \in 1..Len(inputs) |-> ExpectedBlock(inputs[k])]

\* ------------------------------------------------- values of the services

\* A JavaScript value that may be undefined or null: << >> or <<v>>.
Undefined == << >>

Some(v) == <<v>>

Str(text) == <<text>>

\* What Yelp can say about a business (YelpBusiness); ratings are in tenths.
JoesBar ==
    [name |-> <<"J", "o", "'", "s">>,
     url |-> <<"y", "/", "j", "?", "a", "?", "b">>,
     review_count |-> 12,
     categories |-> <<[alias |-> Str("bars")], [alias |-> Str("pubs")]>>,
     photos |-> <<Str("photo1"), Str("photo2")>>,
     location |-> [address1 |-> Str("1 Main St"), city |-> Str("Quito")],
     rating |-> 45,
     coordinates |-> [latitude |-> 0, longitude |-> 0 - 78]]

AlsDiner ==
    [name |-> <<"A", "l">>,
     url |-> <<"y", "/", "a">>,
     review_count |-> 0,
     categories |-> << >>,
     photos |-> << >>,
     location |-> [address1 |-> Str("2 Side St"), city |-> Str("Austin")],
     rating |-> 30,
     coordinates |-> [latitude |-> 30, longitude |-> 0 - 97]]

Message1 == [message |-> Str("Invalid token")]

Message2 == [message |-> Str("Try later")]

\* The responses of the Yelp GraphQL endpoint: response.ok, and the data and
\* errors fields of the JSON body.
YelpResponses ==
    {[ok |-> TRUE, errors |-> Undefined,
      data |-> Some(<<[key |-> Str("searchJos"), business |-> <<JoesBar, AlsDiner>>]>>)],
     [ok |-> TRUE, errors |-> Some(<<Message1>>),
      data |-> Some(<<[key |-> Str("searchAl"), business |-> <<AlsDiner>>],
                      [key |-> Str("searchJos"), business |-> <<JoesBar>>]>>)],
     [ok |-> TRUE, errors |-> Undefined,
      data |-> Some(<<[key |-> Str("searchJos"), business |-> << >>]>>)],
     [ok |-> TRUE, errors |-> Some(<<Message1>>), data |-> Undefined],
     [ok |-> FALSE, errors |-> Some(<<Message1, Message2>>), data |-> Undefined],
     [ok |-> FALSE, errors |-> Some(<< >>), data |-> Undefined],
     [ok |-> FALSE, errors |-> Undefined, data |-> Undefined]}

\* The responses of Google's findplacefromtext endpoint.
FindPlaceResponses ==
    {[status |-> Str("OK"), errors |-> Undefined,
      candidates |-> Some(<<[place_id |-> Str("place-A")], [place_id |-> Str("place-B")]>>)],
     [status |-> Str("OK"), errors |-> Undefined,
      candidates |-> Some(<<[place_id |-> Str("place-B")]>>)],
     [status |-> Str("OK"), errors |-> Undefined, candidates |-> Some(<< >>)],
     [status |-> Str("ZERO_RESULTS"), errors |-> Undefined, candidates |-> Some(<< >>)],
     [status |-> Str("REQUEST_DENIED"), errors |-> Some(<<Message1>>),
      candidates |-> Undefined]}

\* What Google can say about a place (GooglePlaceDetails).
FullDetails ==
    [editorial_summary |-> Some([overview |-> Some(Str("Cosy bar"))]),
     formatted_address |-> Str("1 Main St, Quito"),
     website |-> Some(Str("https://joes.example")),
     url |-> Str("https://maps.example/A"),
     user_ratings_total |-> 7,
     rating |-> Some(41),
     types |-> Some(<<Str("bar"), Str("food")>>)]

BareDetails ==
    [editorial_summary |-> Undefined,
     formatted_address |-> Str("2 Side St, Austin"),
     website |-> Undefined,
     url |-> Str("https://maps.example/B"),
     user_ratings_total |-> 1,
     rating |-> Some(50),
     types |-> Undefined]

UnratedDetails ==
    [editorial_summary |-> Some([overview |-> Undefined]),
     formatted_address |-> Str("3 New St"),
     website |-> Some(EmptyString),
     url |-> Str("https://maps.example/C"),
     user_ratings_total |-> 0,
     rating |-> Undefined,
     types |-> Some(<< >>)]

\* The responses of Google's place details endpoint.
DetailsResponses ==
    {[status |-> Str("OK"), errors |-> Undefined, result |-> Some(FullDetails)],
     [status |-> Str("OK"), errors |-> Undefined, result |-> Some(BareDetails)],
     [status |-> Str("OK"), errors |-> Undefined, result |-> Some(UnratedDetails)],
     [status |-> Str("OK"), errors |-> Undefined, result |-> Undefined],
     [status |-> Str("NOT_FOUND"), errors |-> Undefined, result |-> Undefined]}

\* What tp.system.prompt can resolve to: null (cancelled), '' or a name.
NameAnswers ==
    {Undefined, Some(EmptyString), Some(<<"J", "o", "'", "s">>)}

\* What tp.system.suggester can resolve to: null (dismissed) or a city.
CityAnswers == {Undefined, Some(<<"Q", "u", "i", "t", "o">>)}

ApiKeys == {EmptyString, Str("key")}

FunctionNames == {"search_place", "search_yelp", "search_google_places"}

Invocations == 1..NumInvocations

\* ----------------------------------------------------- response handling

Thrown(error, message) == [kind |-> error, value |-> message]

Returned(kind, value) == [kind |-> kind, value |-> value]

ReturnedNull == [kind |-> "null", value |-> Undefined]

Pending == [kind |-> "pending", value |-> Undefined]

\* errors?.map(e => e.message).join('\n') ?? 'unknown'
ErrorMessage(errors) ==
    IF errors = Undefined THEN Str("unknown")
    ELSE Join([k \in 1..Len(errors[1]) |-> errors[1][k].message], <<NEWLINE>>)

\* Object.values(data).reduce((acc, data) => [...acc, ...data.business], [])
RECURSIVE ConcatBusinesses(_)
ConcatBusinesses(entries) ==
    IF Len(entries) = 0 THEN << >>
    ELSE Head(entries).business \o ConcatBusinesses(Tail(entries))

\* search_yelp, from the response on.
search_yelp_result(response) ==
    IF ~response.ok THEN Thrown("TemplaterError", ErrorMessage(response.errors))
    ELSE IF response.data = Undefined
         THEN Thrown("TypeError", Str("Cannot convert undefined or null to object"))
    ELSE Returned("businesses", ConcatBusinesses(response.data[1]))

\* The place id of the last candidate instead of the first.
search_google_place_last(response) ==
    IF response.status # Str("OK")
    THEN Thrown("TemplaterError", ErrorMessage(response.errors))
    ELSE IF response.candidates = Undefined
         THEN Thrown("TypeError", Str("Cannot read properties of undefined"))
    ELSE IF Len(response.candidates[1]) = 0
         THEN Thrown("TemplaterError", Str("Found no Google place results"))
    ELSE Returned("place_id",
                  response.candidates[1][Len(response.candidates[1])].place_id)

\* search_google_place, from the response on.
search_google_place_result(response) ==
    IF response.status # Str("OK")
    THEN Thrown("TemplaterError", ErrorMessage(response.errors))
    ELSE IF response.candidates = Undefined
         THEN Thrown("TypeError", Str("Cannot read properties of undefined"))
    ELSE IF Len(response.candidates[1]) = 0
         THEN Thrown("TemplaterError", Str("Found no Google place results"))
    ELSE Returned("place_id", response.candidates[1][1].place_id)

\* fetch_google_place_details, from the response on.
fetch_google_place_details_result(response) ==
    IF response.status # Str("OK")
    THEN Thrown("TemplaterError", ErrorMessage(response.errors))
    ELSE IF response.result = Undefined
         THEN Thrown("TemplaterError", Str("Found no Google place details"))
    ELSE Returned("details", response.result[1])

\* ------------------------------------------------------ template variables

\* x || ''
OrEmpty(opt) ==
    IF opt = Undefined \/ opt = Some(EmptyString) THEN EmptyString ELSE opt[1]

\* Math.ceil of a missing rating is NaN, and new Array(NaN), like new Array of
\* a negative number, throws a RangeError.
InvalidArrayLength(rating) ==
    \/ rating = Undefined
    \/ MathCeil(rating[1]) < 0
    \/ MAX_STARS - MathCeil(rating[1]) < 0

RangeError == [kind |-> "RangeError", value |-> Str("Invalid array length")]

\* editorial_summary ? editorial_summary.overview : '', then summary || ''
SummaryOf(details) ==
    OrEmpty(IF details.editorial_summary # Undefined
            THEN details.editorial_summary[1].overview
            ELSE Some(EmptyString))

\* const [banner] = business.photos
BannerOf(business) ==
    IF Len(business.photos) = 0 THEN Undefined ELSE Some(business.photos[1])

\* business.categories.map(category => category.alias).join('\n  - ')
CategoriesOf(business) ==
    Join([k \in 1..Len(business.categories) |-> business.categories[k].alias],
         Str("\n  - "))

\* The Place that generate_place_search returns.
MakePlace(business, details) ==
    [name |-> business.name,
     summary |-> SummaryOf(details),
     address |-> details.formatted_address,
     website |-> OrEmpty(details.website),
     location |-> business.location,
     categories |-> CategoriesOf(business),
     banner |-> BannerOf(business),
     yelp_url |-> SplitFirst(business.url, "?"),
     yelp_review_count |-> business.review_count,
     yelp_ratings |-> RatingsText(business.rating),
     google_url |-> details.url,
     google_review_count |-> details.user_ratings_total,
     google_ratings |-> RatingsText(details.rating[1])]

\* The GooglePlace that generate_google_places_search returns.
MakeGooglePlace(name, details) ==
    [name |-> name,
     summary |-> SummaryOf(details),
     address |-> details.formatted_address,
     website |-> OrEmpty(details.website),
     categories |-> IF details.types # Undefined
                    THEN Join(details.types[1], Str("\n  - "))
                    ELSE EmptyString,
     url |-> details.url,
     review_count |-> details.user_ratings_total,
     ratings |-> RatingsText(details.rating[1])]

\* ------------------------------------------------------------- requests

Prompt == [type |-> "prompt", text |-> Str("Enter business name")]

Suggester == [type |-> "suggester", text |-> Str("Select a city")]

Notice(text) == [type |-> "notice", text |-> text]

\* search_yelp: the POST to the Yelp GraphQL endpoint.
YelpRequest(search_inputs) ==
    [type |-> "yelp_request",
     query |-> generate_yelp_query(search_inputs),
     authorization |-> Str("Bearer ") \o settings.yelp_api_key]

\* A number that may be undefined is truthy when it is defined and not 0.
Truthy(num) == num # Undefined /\ num[1] # 0

\* search_google_place: the GET of findplacefromtext.
FindPlaceRequest(name, latitude, longitude) ==
    [type |-> "findplace_request",
     input |-> name,
     key |-> settings.google_api_key,
     locationbias |->
        IF Truthy(latitude) /\ Truthy(longitude)
        THEN Some(<<"point:", ToString(latitude[1]), ",", ToString(longitude[1])>>)
        ELSE Undefined]

\* fetch_google_place_details: the GET of place details.
DetailsRequest(place_id, details) ==
    [type |-> "details_request",
     fields |-> Join([k \in 1..Len(details) |-> Str(details[k])], Str(",")),
     key |-> settings.google_api_key,
     place_id |-> place_id]

IsRequest(event) ==
    event.type \in {"yelp_request", "findplace_request", "details_request"}

\* ------------------------------------------------------ the invocations

NoLocals ==
    [name |-> Undefined, city |-> Undefined, business |-> Undefined,
     google_place_id |-> Undefined]

\* Only a cancelled prompt, not an empty answer.
NullOnly(opt) == opt = Undefined

\* !x for a string that may be null
Falsy(opt) == opt = Undefined \/ opt = Some(EmptyString)

\* The closure's locals, as the lines after an await read them.
NameOf(i) == locals[i].name[1]

\* One business kept for all invocations: that of the first invocation that
\* has one.
SharedBusiness(i) ==
    LET first == CHOOSE j \in Invocations :
                    /\ locals[j].business # Undefined
                    /\ \A k \in 1..(j - 1) : locals[k].business = Undefined
    IN  locals[first].business[1]

BusinessOf(i) == locals[i].business[1]

\* The key checks at the top of the three functions, in the order they run:
\* search_place checks the Google key and then, inside the Yelp search it
\* calls, the Yelp key.
YelpKeyFirst(f) ==
    IF f \in {"search_place", "search_yelp"} /\ settings.yelp_api_key = EmptyString
    THEN Some(Str("Yelp API key was not found"))
    ELSE IF f \in {"search_place", "search_google_places"}
            /\ settings.google_api_key = EmptyString
         THEN Some(Str("Google API key was not found"))
    ELSE Undefined

MissingKey(f) ==
    IF f \in {"search_place", "search_google_places"}
       /\ settings.google_api_key = EmptyString
    THEN Some(Str("Google API key was not found"))
    ELSE IF f \in {"search_place", "search_yelp"} /\ settings.yelp_api_key = EmptyString
         THEN Some(Str("Yelp API key was not found"))
    ELSE Undefined

\* The details asked of Google by each function.
DetailsFields(f) ==
    IF f = "search_place" THEN DEFAULT_GOOGLE_DETAILS
    ELSE DEFAULT_GOOGLE_DETAILS \o <<"address_components", "types">>

\* The promise of invocation i settles, after showing or sending events.
Finish(i, result, events) ==
    /\ pc' = [pc EXCEPT ![i] = "done"]
    /\ outcome' = [outcome EXCEPT ![i] = result]
    /\ log' = [log EXCEPT ![i] = @ \o events]

\* Invocation i shows or sends events and suspends at an await.
Await(i, at, events) ==
    /\ pc' = [pc EXCEPT ![i] = at]
    /\ log' = [log EXCEPT ![i] = @ \o events]
    /\ UNCHANGED outcome

create_static_templates ==
    /\ static_functions' = static_functions \cup FunctionNames
    /\ UNCHANGED <<settings, op, pc, locals, answers, responses, log, outcome, fnVars>>

\* A template calls tp.locations.<f>(tp): the function runs to its first await.
Invoke(i, f) ==
    /\ pc[i] = "idle"
    /\ f \in static_functions
    /\ op' = [op EXCEPT ![i] = f]
    /\ IF MissingKey(f) # Undefined
       THEN Finish(i, Thrown("TemplaterError", MissingKey(f)[1]), << >>)
       ELSE Await(i, "await_name", <<Prompt>>)
    /\ UNCHANGED <<settings, static_functions, locals, answers, responses, fnVars>>

\* tp.system.prompt resolves.
PromptAnswered(i, name) ==
    /\ pc[i] = "await_name"
    /\ answers' = [answers EXCEPT ![i] = Append(@, name)]
    /\ IF Falsy(name)
       THEN Finish(i, ReturnedNull, << >>) /\ UNCHANGED locals
       ELSE /\ locals' = [locals EXCEPT ![i].name = name]
            /\ Await(i, "await_city", <<Suggester>>)
    /\ UNCHANGED <<settings, static_functions, op, responses, fnVars>>

\* tp.system.suggester resolves; with a city the first request is sent.
SuggesterAnswered(i, city) ==
    /\ pc[i] = "await_city"
    /\ answers' = [answers EXCEPT ![i] = Append(@, city)]
    /\ IF Falsy(city)
       THEN Finish(i, ReturnedNull, << >>) /\ UNCHANGED locals
       ELSE /\ locals' = [locals EXCEPT ![i].city = city]
            /\ IF op[i] = "search_google_places"
               THEN Await(i, "await_find",
                          <<FindPlaceRequest(NameOf(i) \o <<" ">> \o city[1],
                                             Undefined, Undefined)>>)
               ELSE Await(i, "await_yelp",
                          <<YelpRequest(<<[name |-> NameOf(i), city |-> city[1]]>>)>>)
    /\ UNCHANGED <<settings, static_functions, op, responses, fnVars>>

\* The Yelp fetch resolves: search_yelp returns or throws, and search_place
\* goes on to the Google find-place request.
YelpResponded(i, response) ==
    /\ pc[i] = "await_yelp"
    /\ responses' = [responses EXCEPT ![i] = Append(@, response)]
    /\ LET res == search_yelp_result(response)
       IN  IF res.kind # "businesses" \/ op[i] = "search_yelp"
           THEN Finish(i, res, << >>) /\ UNCHANGED locals
           ELSE IF Len(res.value) = 0
           THEN /\ Finish(i, ReturnedNull,
                          <<Notice(Str("Failed to find Yelp business results"))>>)
                /\ UNCHANGED locals
           ELSE IF InvalidArrayLength(Some(res.value[1].rating))
           THEN Finish(i, RangeError, << >>) /\ UNCHANGED locals
           ELSE /\ locals' = [locals EXCEPT ![i].business = Some(res.value[1])]
                /\ Await(i, "await_find",
                         <<FindPlaceRequest(res.value[1].name,
                                            Some(res.value[1].coordinates.latitude),
                                            Some(res.value[1].coordinates.longitude))>>)
    /\ UNCHANGED <<settings, static_functions, op, answers, fnVars>>

\* The find-place fetch resolves; with a place id the details request is sent.
FindPlaceResponded(i, response) ==
    /\ pc[i] = "await_find"
    /\ responses' = [responses EXCEPT ![i] = Append(@, response)]
    /\ LET res == search_google_place_result(response)
       IN  IF res.kind # "place_id"
           THEN Finish(i, res, << >>) /\ UNCHANGED locals
           ELSE /\ locals' = [locals EXCEPT ![i].google_place_id = Some(res.value)]
                /\ Await(i, "await_details",
                         <<DetailsRequest(res.value, DetailsFields(op[i]))>>)
    /\ UNCHANGED <<settings, static_functions, op, answers, fnVars>>

\* The details fetch resolves and the function returns its record.
DetailsResponded(i, response) ==
    /\ pc[i] = "await_details"
    /\ responses' = [responses EXCEPT ![i] = Append(@, response)]
    /\ LET res == fetch_google_place_details_result(response)
       IN  IF res.kind # "details" THEN Finish(i, res, << >>)
           ELSE IF InvalidArrayLength(res.value.rating) THEN Finish(i, RangeError, << >>)
           ELSE IF op[i] = "search_place"
           THEN Finish(i, Returned("place", MakePlace(BusinessOf(i), res.value)), << >>)
           ELSE Finish(i, Returned("google_place", MakeGooglePlace(NameOf(i), res.value)),
                       << >>)
    /\ UNCHANGED <<settings, static_functions, op, locals, answers, fnVars>>

FnUnused == fn_in = << >> /\ fn_out = << >> /\ fn_pc = "unused"

ProcInit ==
    /\ static_functions = {}
    /\ op = [i \in Invocations |-> "none"]
    /\ pc = [i \in Invocations |-> "idle"]
    /\ locals = [i \in Invocations |-> NoLocals]
    /\ answers = [i \in Invocations |-> << >>]
    /\ responses = [i \in Invocations |-> << >>]
    /\ log = [i \in Invocations |-> << >>]
    /\ outcome = [i \in Invocations |-> Pending]

Init ==
    /\ settings \in [google_api_key : ApiKeys, yelp_api_key : ApiKeys]
    /\ ProcInit
    /\ FnUnused

Next ==
    \/ create_static_templates
    \/ \E i \in Invocations, f \in FunctionNames : Invoke(i, f)
    \/ \E i \in Invocations, name \in NameAnswers : PromptAnswered(i, name)
    \/ \E i \in Invocations, city \in CityAnswers : SuggesterAnswered(i, city)
    \/ \E i \in Invocations, response \in YelpResponses : YelpResponded(i, response)
    \/ \E i \in Invocations, response \in FindPlaceResponses :
          FindPlaceResponded(i, response)
    \/ \E i \in Invocations, response \in DetailsResponses :
          DetailsResponded(i, response)

Spec == Init /\ [][Next]_vars

\* ------------------------------------- the ratings text, for every rating

\* The ratings lines of generate_place_search, for a Yelp and a Google rating.
PlaceSearchRatings ==
    /\ fn_pc = "ready"
    /\ fn_out' = [yelp_ratings |-> RatingsText(fn_in.yelp),
                  google_ratings |-> RatingsText(fn_in.google)]
    /\ fn_pc' = "search_place"
    /\ UNCHANGED <<fn_in, procVars>>

\* The ratings lines of generate_google_places_search.
GooglePlacesRatings ==
    /\ fn_pc = "ready"
    /\ fn_out' = [ratings |-> RatingsText(fn_in.google)]
    /\ fn_pc' = "search_google_places"
    /\ UNCHANGED <<fn_in, procVars>>

ProcUnused ==
    /\ settings = [google_api_key |-> Str("key"), yelp_api_key |-> Str("key")]
    /\ ProcInit

StarsInit ==
    /\ fn_in \in [yelp : Ratings, google : Ratings]
    /\ fn_out = << >>
    /\ fn_pc = "ready"
    /\ ProcUnused

StarsNext == PlaceSearchRatings \/ GooglePlacesRatings

SpecStars == StarsInit /\ [][StarsNext]_vars

\* ------------------------------------ the query text, for every search input

NameChars == {"a", "7", " ", QUOTE, BACKSLASH}

QueryNames == UNION {[1..n -> NameChars] : n \in 1..MaxNameLen}

QueryCities == {<<"Q", "u", "i", "t", "o">>, <<"S", "t", " ", "P">>}

QueryInputs ==
    {[name |-> n, city |-> c] : n \in QueryNames, c \in QueryCities}
        \cup {[name |-> n, latitude |-> 30, longitude |-> 0 - 97] : n \in QueryNames}

GenerateYelpQuery ==
    /\ fn_pc = "ready"
    /\ fn_out' = generate_yelp_query(fn_in)
    /\ fn_pc' = "generate_yelp_query"
    /\ UNCHANGED <<fn_in, procVars>>

QueryInit ==
    /\ fn_in \in UNION {[1..n -> QueryInputs] : n \in 1..MaxInputs}
    /\ fn_out = << >>
    /\ fn_pc = "ready"
    /\ ProcUnused

QueryNext == GenerateYelpQuery

SpecQuery == QueryInit /\ [][QueryNext]_vars

\* ================================================================ claims

\* C1. For every rating r with 0 <= r <= 5, the ratings text of search_place
\* (yelp_ratings, google_ratings) and of search_google_places (ratings) has
\* exactly 5 symbols: ceil(r) filled stars followed by 5 - ceil(r) empty stars.
C1_StarRatings ==
    /\ fn_pc = "search_place" =>
          /\ IsStarsOf(fn_out.yelp_ratings, fn_in.yelp)
          /\ IsStarsOf(fn_out.google_ratings, fn_in.google)
    /\ fn_pc = "search_google_places" => IsStarsOf(fn_out.ratings, fn_in.google)

\* A rating strictly between 4 and 4.5 stars was turned into five filled stars,
\* and a rating of 0 into five empty ones.
C1_Witness ==
    /\ fn_pc = "search_place"
    /\ 4 * RatingScale < fn_in.yelp /\ 2 * fn_in.yelp < 9 * RatingScale
    /\ fn_out.yelp_ratings = [k \in 1..MAX_STARS |-> STAR_FILLED]
    /\ fn_in.google = 0
    /\ fn_out.google_ratings = [k \in 1..MAX_STARS |-> STAR_EMPTY]

\* The query is read back as one block per input, in input order, each with
\* the alias, the term and the location (or coordinates) of its input.
QueryReadsBack ==
    LET parsed == ParseQuery(fn_out)
    IN  parsed.ok /\ parsed.blocks = ExpectedBlocks(fn_in)

AllCityBased(inputs) == \A k \in 1..Len(inputs) : HasCity(inputs[k])

\* C2. For every business name and city, generate_yelp_query builds a valid
\* query with one search block per input in input order, whose alias is
\* 'search' followed by the letters and digits of the name and whose quoted
\* term and location contain exactly the entered name and city.
C2_ValidYelpQuery ==
    (fn_pc = "generate_yelp_query" /\ AllCityBased(fn_in)) => QueryReadsBack

\* The same for the names that hold neither a quote nor a backslash, which is
\* all the query builder can take: it escapes nothing.
PlainName(name) == \A k \in 1..Len(name) : name[k] \notin {QUOTE, BACKSLASH}

QueryValidForPlainNames ==
    (fn_pc = "generate_yelp_query" /\ \A k \in 1..Len(fn_in) : PlainName(fn_in[k].name))
        => QueryReadsBack

\* ---- what an invocation was given, read from its history

\* The user gave nothing: the prompt was cancelled or left empty.
NoAnswer(opt) == opt = Undefined \/ opt = Some(EmptyString)

Done(i) == pc[i] = "done"

\* The events of invocation i that are HTTP requests, in the order sent.
RequestsOf(i) == SelectSeq(log[i], IsRequest)

IsNotice(event) == event.type = "notice"

IsSuggester(event) == event.type = "suggester"

NameAnswer(i) == answers[i][1]

CityAnswer(i) == answers[i][2]

\* The businesses of a Yelp response, search result after search result.
BusinessesOf(response) ==
    LET entries == response.data[1]
        RECURSIVE Flat(_)
        Flat(k) == IF k = 0 THEN << >> ELSE Flat(k - 1) \o entries[k].business
    IN  Flat(Len(entries))

\* u is url cut before its first ch.
IsCutBefore(u, url, ch) ==
    /\ Len(u) <= Len(url)
    /\ \A k \in 1..Len(u) : u[k] = url[k] /\ u[k] # ch
    /\ Len(u) < Len(url) => url[Len(u) + 1] = ch

\* The Yelp part of a Place comes from business.
YelpPartFrom(place, business) ==
    /\ place.name = business.name
    /\ place.location = business.location
    /\ place.categories = CategoriesOf(business)
    /\ place.banner = IF business.photos = << >> THEN Undefined
                      ELSE Some(Head(business.photos))
    /\ IsCutBefore(place.yelp_url, business.url, "?")
    /\ place.yelp_review_count = business.review_count
    /\ IsStarsOf(place.yelp_ratings, business.rating)

\* The Google part of a Place comes from details.
GooglePartFrom(place, details) ==
    /\ place.summary =
          IF details.editorial_summary # Undefined
             /\ details.editorial_summary[1].overview # Undefined
          THEN details.editorial_summary[1].overview[1]
          ELSE EmptyString
    /\ place.address = details.formatted_address
    /\ place.website = IF details.website # Undefined THEN details.website[1]
                       ELSE EmptyString
    /\ place.google_url = details.url
    /\ place.google_review_count = details.user_ratings_total
    /\ IsStarsOf(place.google_ratings, details.rating[1])

\* The find-place request of invocation i searched the name of business, and
\* the details request asked for the first place id that search found.
PlaceIdChain(i, business) ==
    LET requests == RequestsOf(i)
    IN  /\ Len(requests) = 3
        /\ requests[2].type = "findplace_request"
        /\ requests[2].input = business.name
        /\ requests[3].type = "details_request"
        /\ requests[3].place_id = responses[i][2].candidates[1][1].place_id

\* ... with the coordinates of business.
SearchedWithCoordinates(i, business) ==
    RequestsOf(i)[2].locationbias =
        Some(<<"point:", ToString(business.coordinates.latitude), ",",
               ToString(business.coordinates.longitude)>>)

ReturnedPlace(i) == op[i] = "search_place" /\ Done(i) /\ outcome[i].kind = "place"

\* C3. Whenever search_place returns a non-null Place, its Yelp fields come
\* from the first business of the Yelp result and its Google fields from the
\* details of the place id found by searching that business's name with that
\* business's coordinates; summary and website are '' when Google gives none,
\* and yelp_url is the business url cut before its first '?'.
C3_MergedRecord ==
    \A i \in Invocations :
        ReturnedPlace(i) =>
            LET business == BusinessesOf(responses[i][1])[1]
            IN  /\ YelpPartFrom(outcome[i].value, business)
                /\ GooglePartFrom(outcome[i].value, responses[i][3].result[1])
                /\ PlaceIdChain(i, business)
                /\ SearchedWithCoordinates(i, business)

\* All of C3 but the coordinates of the find-place search.
MergedRecordFromOwnResponses ==
    \A i \in Invocations :
        ReturnedPlace(i) =>
            LET business == BusinessesOf(responses[i][1])[1]
            IN  /\ YelpPartFrom(outcome[i].value, business)
                /\ GooglePartFrom(outcome[i].value, responses[i][3].result[1])
                /\ PlaceIdChain(i, business)
                /\ (business.coordinates.latitude # 0 /\ business.coordinates.longitude # 0)
                      => SearchedWithCoordinates(i, business)

GoogleKeyError == Thrown("TemplaterError", Str("Google API key was not found"))

YelpKeyError == Thrown("TemplaterError", Str("Yelp API key was not found"))

NeedsGoogleKey(f) == f \in {"search_place", "search_google_places"}

\* C4. With an empty Google key search_place and search_google_places fail
\* with 'Google API key was not found'; with an empty Yelp key search_yelp,
\* and search_place when the Google key is set, fail with 'Yelp API key was
\* not found'; before any prompt is shown and any request is sent.
C4_MissingApiKey ==
    \A i \in Invocations :
        op[i] # "none" =>
            /\ (NeedsGoogleKey(op[i]) /\ settings.google_api_key = EmptyString)
                  => (Done(i) /\ outcome[i] = GoogleKeyError /\ log[i] = << >>)
            /\ (/\ settings.yelp_api_key = EmptyString
                /\ \/ op[i] = "search_yelp"
                   \/ op[i] = "search_place" /\ settings.google_api_key # EmptyString)
                  => (Done(i) /\ outcome[i] = YelpKeyError /\ log[i] = << >>)

\* search_place failed on the Yelp key with the Google key set, and, in the
\* same run, search_yelp failed on it too.
C4_Witness ==
    /\ settings.google_api_key # EmptyString
    /\ \E i, j \in Invocations :
          /\ op[i] = "search_place" /\ outcome[i] = YelpKeyError
          /\ op[j] = "search_yelp" /\ outcome[j] = YelpKeyError

\* search_place failed on the Google key although the Yelp key is empty too.
C4_WitnessBothEmpty ==
    /\ settings.google_api_key = EmptyString
    /\ settings.yelp_api_key = EmptyString
    /\ \E i \in Invocations : op[i] = "search_place" /\ outcome[i] = GoogleKeyError

\* What function f returns or throws when the user gives the answers ans and
\* the services give the responses resp.
ExpectedOutcome(f, ans, resp) ==
    IF NeedsGoogleKey(f) /\ settings.google_api_key = EmptyString THEN GoogleKeyError
    ELSE IF f # "search_google_places" /\ settings.yelp_api_key = EmptyString
         THEN YelpKeyError
    ELSE IF NoAnswer(ans[1]) \/ NoAnswer(ans[2]) THEN ReturnedNull
    ELSE IF f = "search_yelp" THEN search_yelp_result(resp[1])
    ELSE IF f = "search_google_places"
         THEN LET found == search_google_place_result(resp[1])
                  details == fetch_google_place_details_result(resp[2])
              IN  IF found.kind # "place_id" THEN found
                  ELSE IF details.kind # "details" THEN details
                  ELSE IF InvalidArrayLength(details.value.rating) THEN RangeError
                  ELSE Returned("google_place", MakeGooglePlace(ans[1][1], details.value))
    ELSE LET yelp == search_yelp_result(resp[1])
             found == search_google_place_result(resp[2])
             details == fetch_google_place_details_result(resp[3])
         IN  IF yelp.kind # "businesses" THEN yelp
             ELSE IF Len(yelp.value) = 0 THEN ReturnedNull
             ELSE IF found.kind # "place_id" THEN found
             ELSE IF details.kind # "details" THEN details
             ELSE IF InvalidArrayLength(details.value.rating) THEN RangeError
             ELSE Returned("place", MakePlace(yelp.value[1], details.value))

ResultFromOwnInputs ==
    \A i \in Invocations :
        Done(i) =>
            LET expected == ExpectedOutcome(op[i], answers[i], responses[i])
            IN  outcome[i].kind = expected.kind /\ outcome[i].value = expected.value

\* A step of an invocation leaves the settings and the registered functions alone.
InvocationKeepsState ==
    (pc' # pc) => (settings' = settings /\ static_functions' = static_functions)

\* C5. No invocation changes the plugin settings or the registered static
\* functions, and the result of an invocation depends only on the settings and
\* on its own user answers and service responses, also when invocations are
\* in progress at the same time and their prompts and requests interleave.
C5_NoPersistentState == [][InvocationKeepsState]_vars /\ []ResultFromOwnInputs

\* Two search_place invocations given different businesses both returned a
\* Place, each with its own business's name.
C5_Witness ==
    \E i, j \in Invocations :
        /\ ReturnedPlace(i) /\ ReturnedPlace(j)
        /\ outcome[i].value.name = JoesBar.name
        /\ outcome[j].value.name = AlsDiner.name

Aborted(i) ==
    \/ Len(answers[i]) >= 1 /\ NoAnswer(NameAnswer(i))
    \/ Len(answers[i]) >= 2 /\ NoAnswer(CityAnswer(i))

\* C6. When the user gives no business name (empty or cancelled prompt) or
\* selects no city, the function returns null, sends no HTTP request and shows
\* no failure notice; when the name prompt is aborted the city suggester is
\* never shown.
C6_AbortedSearch ==
    \A i \in Invocations :
        Aborted(i) =>
            /\ Done(i)
            /\ outcome[i].kind = "null"
            /\ RequestsOf(i) = << >>
            /\ SelectSeq(log[i], IsNotice) = << >>
            /\ NoAnswer(NameAnswer(i)) => SelectSeq(log[i], IsSuggester) = << >>

\* In one run an empty name, a cancelled name prompt and a dismissed city
\* suggester each ended a function with null.
C6_Witness ==
    /\ \E i \in Invocations :
          op[i] = "search_place" /\ Done(i) /\ answers[i] = <<Some(EmptyString)>>
    /\ \E i \in Invocations :
          /\ Done(i) /\ Len(answers[i]) = 2 /\ CityAnswer(i) = Undefined
          /\ outcome[i].kind = "null"

RequestTypes(i) == [k \in 1..Len(RequestsOf(i)) |-> RequestsOf(i)[k].type]

PlaceRequestOrder == <<"yelp_request", "findplace_request", "details_request">>

\* C7. In one search_place the requests go out in the order Yelp search,
\* find-place, place-details, at most one of each; the find-place request only
\* after Yelp returned at least one business (an empty Yelp result shows the
\* notice 'Failed to find Yelp business results' and returns null), and the
\* details request only after find-place answered 'OK' with at least one
\* candidate, with the place_id of the first candidate.
C7_RequestOrdering ==
    \A i \in Invocations :
        op[i] = "search_place" =>
            LET sent == RequestTypes(i)
            IN  /\ Len(sent) <= 3
                /\ sent = SubSeq(PlaceRequestOrder, 1, Len(sent))
                /\ Len(sent) >= 2 =>
                      /\ Len(responses[i]) >= 1
                      /\ responses[i][1].ok
                      /\ responses[i][1].data # Undefined
                      /\ BusinessesOf(responses[i][1]) # << >>
                /\ (/\ Len(responses[i]) >= 1
                    /\ responses[i][1].ok
                    /\ responses[i][1].data # Undefined
                    /\ BusinessesOf(responses[i][1]) = << >>) =>
                      /\ Done(i)
                      /\ outcome[i].kind = "null"
                      /\ Len(sent) = 1
                      /\ SelectSeq(log[i], IsNotice)
                            = <<Notice(Str("Failed to find Yelp business results"))>>
                /\ Len(sent) = 3 =>
                      /\ Len(responses[i]) >= 2
                      /\ responses[i][2].status = Str("OK")
                      /\ responses[i][2].candidates # Undefined
                      /\ responses[i][2].candidates[1] # << >>
                      /\ RequestsOf(i)[3].place_id
                            = Head(responses[i][2].candidates[1]).place_id

\* A search_place sent all three requests after a find-place answer with two
\* candidates, and another one stopped at an empty Yelp result.
C7_Witness ==
    /\ \E i \in Invocations :
          /\ op[i] = "search_place" /\ RequestTypes(i) = PlaceRequestOrder
          /\ Len(responses[i][2].candidates[1]) = 2
          /\ RequestsOf(i)[3].place_id = Str("place-A")
    /\ \E i \in Invocations :
          /\ op[i] = "search_place" /\ Done(i) /\ Len(responses[i]) = 1
          /\ SelectSeq(log[i], IsNotice) # << >>

\* C8. For every response of the Yelp service search_yelp either returns the
\* businesses of all search results in key order, or fails with a
\* TemplaterError whose message is the error messages joined by newlines, or
\* 'unknown' when there are none; it never fails with another kind of error.
C8_YelpResponseHandling ==
    \A i \in Invocations :
        (op[i] = "search_yelp" /\ Done(i) /\ Len(responses[i]) = 1) =>
            LET response == responses[i][1]
            IN  \/ /\ outcome[i].kind = "businesses"
                   /\ outcome[i].value = BusinessesOf(response)
                \/ /\ outcome[i].kind = "TemplaterError"
                   /\ \/ response.errors = Undefined /\ outcome[i].value = Str("unknown")
                      \/ response.errors = Some(<< >>)
                      \/ /\ response.errors # Undefined
                         /\ outcome[i].value = ErrorMessage(response.errors)

\* The same for the responses that are not ok or carry a data field.
YelpResponseHandledWhenDataOrNotOk ==
    \A i \in Invocations :
        (/\ op[i] = "search_yelp" /\ Done(i) /\ Len(responses[i]) = 1
         /\ (~responses[i][1].ok \/ responses[i][1].data # Undefined)) =>
            \/ /\ outcome[i].kind = "businesses"
               /\ outcome[i].value = BusinessesOf(responses[i][1])
            \/ /\ outcome[i].kind = "TemplaterError"
               /\ outcome[i].value = ErrorMessage(responses[i][1].errors)

====
